---- MODULE Spec2Model ----
(***************************************************************************)
(* Model of the CRM MCP server (src/src/mcp-server.ts): the /mcp endpoint  *)
(* of the Streamable-HTTP gateway, its session map, and the tools/call     *)
(* dispatcher.                                                             *)
(*                                                                         *)
(* The route handler app.all('/mcp') is an async function.  Each action   *)
(* below is one synchronous stretch of it: from the arrival of a request   *)
(* to the first await (or to the response), or from the settling of an     *)
(* awaited promise to the next await (or to the response).  The SDK        *)
(* objects the handler awaits (Server.connect, transport.handleRequest)    *)
(* are the environment: every outcome the handler itself provides for      *)
(* (resolve, reject, response written or not, callbacks fired) is          *)
(* possible.                                                               *)
(***************************************************************************)
EXTENDS Integers, Sequences, FiniteSets, TLC

\* ---------------------------------------------------------------- bounds
\* number of randomUUID() calls, i.e. of transports ever constructed
MaxSessions == 2
\* number of /mcp handlers suspended at an await at the same time
MaxInFlight == 2

\* ---------------------------------------------------------- plain values
\* `undefined`: no session id (line 1191), no header set on the response
Undefined == 0
\* the code point of a blank in a header value
Blank == 0

VARIABLES
    config,            \* backends whose credentials are configured (env, lines 47-52)
    activeTransports,  \* Map<string, transport> (line 1106): session id -> transport
    transports,        \* transports constructed so far, in order of construction
    nextUUID,          \* the next value randomUUID() returns
    inflight,          \* the suspended /mcp handlers
    last,              \* the response just written to a client, with its request
    call,              \* the tools/call request the dispatcher is serving
    sheets,            \* the customer sheet and the last customer-record tool call
    rest               \* the REST wrapper: its API key and the last /api request

vars == <<config, activeTransports, transports, nextUUID, inflight, last, call, sheets, rest>>

\* the state of the /mcp gateway and its dispatcher, and the state outside it
gatewayVars == <<config, activeTransports, transports, nextUUID, inflight, last, call>>
outsideVars == <<sheets, rest>>

\* the customer sheet before any tool has used it, the REST wrapper before
\* any request
NoSheet == [impl |-> "none"]
NoRest == [pc |-> "down"]

NoExchange == [writer |-> "none"]

\* the client has taken the last response: events are handled one at a time
Idle == last = NoExchange

\* the dispatcher serves no tools/call request
NoCall == [pc |-> "idle"]

\* ------------------------------------------------------------- registry
Backends == {"sheets", "calendly", "email"}

\* A tool name is the sequence of its words: add_customer_record is
\* <<"add", "customer", "record">>, so that a prefix test can be computed.
\* lines 173-278
SheetsTools == << <<"initialize", "sheet">>, <<"add", "customer", "record">>,
                  <<"get", "customer", "record">>, <<"update", "customer", "record">>,
                  <<"search", "customer", "records">>, <<"list", "all", "customers">>,
                  <<"check", "customer", "history">> >>
\* lines 281-385
CalendlyTools == << <<"create", "event">>, <<"list", "event", "types">>,
                    <<"get", "event", "type">>, <<"get", "scheduling", "link">>,
                    <<"list", "scheduled", "events">>, <<"get", "event", "invitee">>,
                    <<"cancel", "event">> >>
\* lines 388-435
EmailTools == << <<"send", "appointment", "confirmation">>,
                 <<"send", "appointment", "reminder">>, <<"send", "custom", "email">> >>

\* lines 47-52: the environment variables that hold credentials, and
\* lines 72-87: whether the credentials file named by the first was read and
\* parsed ("sheetsClient" then holds a client, otherwise null)
EnvVars == {"GOOGLE_SHEETS_CREDENTIALS_PATH", "GOOGLE_SHEETS_SPREADSHEET_ID",
            "CALENDLY_API_TOKEN", "CALENDLY_ORGANIZATION_URI",
            "SENDGRID_API_KEY", "SENDGRID_FROM_EMAIL"}
Environments == SUBSET (EnvVars \cup {"credentials file parses"})

\* the backends whose test in getAllTools (lines 173, 281, 388) passes
Configuration(env) ==
    LET sheetsClient ==
            {"GOOGLE_SHEETS_CREDENTIALS_PATH", "GOOGLE_SHEETS_SPREADSHEET_ID",
             "credentials file parses"} \subseteq env
    IN  (IF sheetsClient /\ "GOOGLE_SHEETS_SPREADSHEET_ID" \in env
         THEN {"sheets"} ELSE {})
        \cup (IF {"CALENDLY_API_TOKEN", "CALENDLY_ORGANIZATION_URI"} \subseteq env
              THEN {"calendly"} ELSE {})
        \cup (IF {"SENDGRID_API_KEY", "SENDGRID_FROM_EMAIL"} \subseteq env
              THEN {"email"} ELSE {})

\* faulty variant: the scheduling descriptors are pushed without the test of
\* the credentials
getAllToolsUnguarded(cfg) ==
    (IF "sheets" \in cfg THEN SheetsTools ELSE <<>>)
    \o CalendlyTools
    \o (IF "email" \in cfg THEN EmailTools ELSE <<>>)

\* getAllTools(): the names of the descriptors pushed, in order
getAllTools(cfg) ==
    (IF "sheets" \in cfg THEN SheetsTools ELSE <<>>)
    \o (IF "calendly" \in cfg THEN CalendlyTools ELSE <<>>)
    \o (IF "email" \in cfg THEN EmailTools ELSE <<>>)

\* --------------------------------------------------------------- origin
\* An Origin header is absent, or a string that new URL() parses to a
\* hostname (a sequence of dot-separated labels), or a string it rejects.
NoOrigin == [kind |-> "absent", host |-> <<>>]
BadUrl == [kind |-> "garbage", host |-> <<>>]
Url(h) == [kind |-> "url", host |-> h]

allowedHosts == {<<"localhost">>, <<"127", "0", "0", "1">>, <<"openai", "com">>,
                 <<"ngrok-free", "app">>, <<"ngrok", "app">>,
                 <<"api", "openai", "com">>}

\* hostname.endsWith(`.${host}`): host is a proper suffix at a label boundary
EndsWithDot(hostname, host) ==
    /\ Len(hostname) > Len(host)
    /\ SubSeq(hostname, Len(hostname) - Len(host) + 1, Len(hostname)) = host

\* faulty variant: every origin is accepted
validateOriginNoCheck(origin) == TRUE

validateOrigin(origin) ==
    IF origin.kind = "absent" THEN TRUE
    ELSE IF origin.kind = "garbage" THEN FALSE
    ELSE \E host \in allowedHosts :
            origin.host = host \/ EndsWithDot(origin.host, host)

\* ------------------------------------------------------ session header
\* A request's Mcp-Session-Id header is a sequence of code points: <<>>
\* when absent, Blank for white space, and a session id otherwise.
RECURSIVE TrimLeft(_)
TrimLeft(s) == IF s # <<>> /\ Head(s) = Blank THEN TrimLeft(Tail(s)) ELSE s

RECURSIVE TrimRight(_)
TrimRight(s) ==
    IF s # <<>> /\ s[Len(s)] = Blank THEN TrimRight(SubSeq(s, 1, Len(s) - 1)) ELSE s

\* String(rawSession).trim() || undefined
NormalizeSession(raw) ==
    LET t == TrimRight(TrimLeft(raw))
    IN IF t = <<>> THEN Undefined ELSE t[1]

\* an identifier no randomUUID() call of the run returns
BogusId == MaxSessions + 1

\* ------------------------------------------------------------ responses
\* The response object as the cors middleware hands it to the route.
FreshRes == [status |-> 200, headersSent |-> FALSE, session |-> Undefined,
             expose |-> <<"Mcp-Session-Id">>, body |-> <<>>, id |-> "none",
             code |-> 0, tools |-> <<>>]

setSessionHeaders(res, sessionId) ==
    [res EXCEPT !.session = sessionId,
                !.expose = IF res.expose # <<>>
                           THEN Append(res.expose, "Mcp-Session-Id")
                           ELSE <<"Mcp-Session-Id">>]

\* res.status(s).send(text) / res.json(body): body lists what was written
Send(res, status, body) ==
    [res EXCEPT !.status = status, !.headersSent = TRUE, !.body = Append(res.body, body)]

\* JSON-RPC "Internal error" (line 1330)
InternalError == -32603

\* faulty variant: the catch block writes the 500 without testing headersSent
CatchBlockAlways(res) == [Send(res, 500, "error") EXCEPT !.code = InternalError, !.id = "null"]

\* lines 1324-1336: the catch block of the route
CatchBlock(res) ==
    IF ~res.headersSent
    THEN [Send(res, 500, "error") EXCEPT !.code = InternalError, !.id = "null"]
    ELSE res

\* req.body.id ?? null
RpcId(req) == IF req.id = "absent" THEN "null" ELSE req.id


\* ------------------------------------------------------------- requests
Methods == {"GET", "POST", "DELETE"}
Origins == {NoOrigin, Url(<<"evil", "test">>)}
BodyMethods == {"initialize", "tools/list", "tools/call"}
RpcIds == {"absent", "1"}

\* The identifiers a client can know: those generated for a request whose
\* handler is no longer suspended (an identifier reaches the client in a
\* response; randomUUID values cannot be guessed).
Known ==
    {k \in 1..(nextUUID - 1) :
        \A h \in inflight :
            ~(h.branch \in {"initialize", "new"} /\ h.currentSessionId = k)}

\* the session headers a client can send: none, white space, an identifier
\* the server never generated, or one it generated (with or without padding)
SessionHeaders ==
    {<<>>, <<Blank>>, <<BogusId>>} \cup {<<k>> : k \in Known}

\* GET and DELETE carry no JSON-RPC body; the id is left out of tools/list
\* and initialize only, and only of requests without a session header; a
\* header of white space is sent with GET only; a request from a foreign
\* origin presents no identifier or the first one issued
Requests ==
    {r \in [method : Methods, origin : Origins, session : SessionHeaders,
            body : BodyMethods \cup {"none"}, id : RpcIds] :
        /\ IF r.method = "POST"
           THEN /\ r.body # "none"
                /\ r.body = "tools/call" => r.id # "absent"
                /\ r.id = "absent" => r.session = <<>>
                /\ r.session # <<Blank>>
           ELSE /\ r.body = "none"
                /\ r.id = "absent"
                /\ r.method # "GET" => r.session # <<Blank>>
        /\ r.origin # NoOrigin => r.session \in {<<>>, <<1>>}}

\* ----------------------------------------------------------- transports
\* new StreamableHTTPServerTransport({sessionIdGenerator: () => currentSessionId, ...})
NewTransport(currentSessionId) ==
    [sid |-> currentSessionId, sse |-> FALSE, closed |-> FALSE]

\* activeTransports.set(sid, transport)
MapSet(m, sid, transport) ==
    [k \in DOMAIN m \cup {sid} |-> IF k = sid THEN transport ELSE m[k]]

\* activeTransports.delete(sid)
MapDelete(m, sid) == [k \in DOMAIN m \ {sid} |-> m[k]]

\* activeTransports.get(sid)
MapGet(m, sid) == IF sid \in DOMAIN m THEN m[sid] ELSE Undefined

\* faulty variant: any presented identifier counts, the map is not consulted
SessionKnownNoLookup(sessionId) == sessionId # Undefined

\* sessionId && activeTransports.has(sessionId)   (lines 1198, 1287)
SessionKnown(sessionId) ==
    sessionId # Undefined /\ sessionId \in DOMAIN activeTransports

\* faulty variant: the callback files the transport under another key than
\* the identifier it is handed
onsessioninitializedOtherKey(m, sid, transport) == MapSet(m, BogusId, transport)

\* onsessioninitialized: (sid) => activeTransports.set(sid, transport)
onsessioninitialized(m, sid, transport) == MapSet(m, sid, transport)

\* faulty variant: the closure callback leaves the entry in the map
onsessionclosedKeeps(m, sid) == m

onsessionclosed(m, sid) == MapDelete(m, sid)

\* faulty variant: a generator that returns its previous value again
randomUUIDRepeats == IF nextUUID > 1 THEN nextUUID - 1 ELSE nextUUID

\* randomUUID(): a value no earlier call returned
randomUUID == nextUUID

\* a handler may suspend while fewer than MaxInFlight are suspended
CanSuspend == Cardinality(inflight) < MaxInFlight

Suspend(pc, branch, req, res, currentSessionId, transport) ==
    [pc |-> pc, branch |-> branch, req |-> req, res |-> res,
     currentSessionId |-> currentSessionId, transport |-> transport,
     initialized |-> FALSE]

Exchange(writer, req, res) == [writer |-> writer, req |-> req, res |-> res]

\* the Accept headers a client sends: none, the two the protocol asks for,
\* and one that names neither
Accepts == {"absent", "application/json, text/event-stream", "text/html"}

\* line 1213: req.accepts(['application/json', 'text/event-stream', '*/*'])
\* is the first listed type the header admits (the first of the list when
\* there is no header), false when it admits none
accepts(accept) ==
    CASE accept = "absent" -> "application/json"
      [] accept = "application/json, text/event-stream" -> "application/json"
      [] OTHER -> "false"

\* faulty variant: a header that admits none of the types stops the handler
AcceptInspectionStrict(accept) == accepts(accept) # "false"

\* lines 1211-1217: when nothing is accepted a warning is logged; the handler
\* proceeds in both cases
AcceptInspection(accept) ==
    IF accepts(accept) = "false"
    THEN TRUE   \* console.warn, "Proceeding anyway for compatibility"
    ELSE TRUE

\* ------------------------------------------------------------------ Init
Init ==
    /\ sheets = NoSheet
    /\ rest = NoRest
    /\ config = Backends
    /\ activeTransports = <<>>
    /\ transports = <<>>
    /\ nextUUID = 1
    /\ inflight = {}
    /\ last = NoExchange
    /\ call = NoCall

\* ----------------------------------------- app.all('/mcp'): synchronous
\* line 1183: the Origin check comes first
RejectOrigin(req) ==
    /\ ~validateOrigin(req.origin)
    /\ last' = Exchange("origin", req, Send(FreshRes, 403, "Forbidden: Invalid origin"))
    /\ UNCHANGED <<outsideVars, config, activeTransports, transports, nextUUID, inflight, call>>

\* lines 1196-1201: GET with no session, or one the map does not hold
GetNoSession(req) ==
    LET sessionId == NormalizeSession(req.session) IN
    /\ validateOrigin(req.origin)
    /\ req.method = "GET"
    /\ ~SessionKnown(sessionId)
    /\ last' = Exchange("get", req, Send(FreshRes, 400, "Bad Request: Session not found. Initialize session first via POST /mcp"))
    /\ UNCHANGED <<outsideVars, config, activeTransports, transports, nextUUID, inflight, call>>

\* lines 1203-1206: GET on a registered session, up to await handleRequest
GetStream(req) ==
    LET sessionId == NormalizeSession(req.session) IN
    /\ validateOrigin(req.origin)
    /\ req.method = "GET"
    /\ SessionKnown(sessionId)
    /\ CanSuspend
    /\ inflight' = inflight \cup
            {Suspend("handle", "get", req, setSessionHeaders(FreshRes, sessionId),
                    Undefined, MapGet(activeTransports, sessionId))}
    /\ UNCHANGED <<outsideVars, config, activeTransports, transports, nextUUID, last, call>>

\* faulty variant: an initialize that presents a registered identifier
\* keeps it for the transport it creates
PostInitializeKeepsId(req, accept) ==
    LET sessionId == NormalizeSession(req.session)
        currentSessionId == IF SessionKnown(sessionId) THEN sessionId ELSE randomUUID
    IN
    /\ validateOrigin(req.origin)
    /\ req.method = "POST"
    /\ AcceptInspection(accept)
    /\ req.body = "initialize"
    /\ nextUUID <= MaxSessions
    /\ CanSuspend
    /\ nextUUID' = nextUUID + 1
    /\ transports' = Append(transports, NewTransport(currentSessionId))
    /\ inflight' = inflight \cup
            {Suspend("connect", "initialize", req, FreshRes, currentSessionId,
                    Len(transports) + 1)}
    /\ UNCHANGED <<outsideVars, config, activeTransports, last, call>>

\* lines 1222-1240: initialize, up to await mcpServer.connect
PostInitialize(req, accept) ==
    LET currentSessionId == randomUUID IN
    /\ validateOrigin(req.origin)
    /\ req.method = "POST"
    /\ AcceptInspection(accept)
    /\ req.body = "initialize"
    /\ nextUUID <= MaxSessions
    /\ CanSuspend
    /\ nextUUID' = nextUUID + 1
    /\ transports' = Append(transports, NewTransport(currentSessionId))
    /\ inflight' = inflight \cup
            {Suspend("connect", "initialize", req, FreshRes, currentSessionId,
                    Len(transports) + 1)}
    /\ UNCHANGED <<outsideVars, config, activeTransports, last, call>>

\* faulty variant: tools/list is answered only for a registered session
PostToolsListNeedsSession(req, accept) ==
    /\ validateOrigin(req.origin)
    /\ req.method = "POST"
    /\ AcceptInspection(accept)
    /\ req.body = "tools/list"
    /\ last' = Exchange("tools/list", req,
                  IF SessionKnown(NormalizeSession(req.session))
                  THEN [Send(FreshRes, 200, "result") EXCEPT
                           !.id = RpcId(req), !.tools = getAllTools(config)]
                  ELSE Send(FreshRes, 400, "Bad Request: Session not found. Initialize session first via POST /mcp"))
    /\ UNCHANGED <<outsideVars, config, activeTransports, transports, nextUUID, inflight, call>>

\* lines 1274-1285: tools/list answered by Express
PostToolsList(req, accept) ==
    /\ validateOrigin(req.origin)
    /\ req.method = "POST"
    /\ AcceptInspection(accept)
    /\ req.body = "tools/list"
    /\ last' = Exchange("tools/list", req,
                  [Send(FreshRes, 200, "result") EXCEPT
                      !.id = RpcId(req), !.tools = getAllTools(config)])
    /\ UNCHANGED <<outsideVars, config, activeTransports, transports, nextUUID, inflight, call>>

\* faulty variant: a registered session is ignored and a new transport built
PostReuseFresh(req, accept) ==
    LET sessionId == NormalizeSession(req.session)
        currentSessionId == randomUUID
    IN
    /\ validateOrigin(req.origin)
    /\ req.method = "POST"
    /\ AcceptInspection(accept)
    /\ req.body \notin {"initialize", "tools/list"}
    /\ SessionKnown(sessionId)
    /\ nextUUID <= MaxSessions
    /\ CanSuspend
    /\ nextUUID' = nextUUID + 1
    /\ transports' = Append(transports, NewTransport(currentSessionId))
    /\ inflight' = inflight \cup
            {Suspend("connect", "new", req, FreshRes, currentSessionId,
                    Len(transports) + 1)}
    /\ UNCHANGED <<outsideVars, config, activeTransports, last, call>>

\* lines 1287-1291, 1314-1318: a registered session, up to await handleRequest
PostReuse(req, accept) ==
    LET sessionId == NormalizeSession(req.session) IN
    /\ validateOrigin(req.origin)
    /\ req.method = "POST"
    /\ AcceptInspection(accept)
    /\ req.body \notin {"initialize", "tools/list"}
    /\ SessionKnown(sessionId)
    /\ CanSuspend
    /\ inflight' = inflight \cup
            {Suspend("handle", "reuse", req, setSessionHeaders(FreshRes, sessionId),
                    sessionId, MapGet(activeTransports, sessionId))}
    /\ UNCHANGED <<outsideVars, config, activeTransports, transports, nextUUID, last, call>>

\* faulty variant: the new transport is created under the identifier the
\* request presented, when it presented one the server had generated
PostNewSessionKeepsId(req, accept) ==
    LET sessionId == NormalizeSession(req.session)
        currentSessionId == IF sessionId \in 1..MaxSessions THEN sessionId ELSE randomUUID
    IN
    /\ validateOrigin(req.origin)
    /\ req.method = "POST"
    /\ AcceptInspection(accept)
    /\ req.body \notin {"initialize", "tools/list"}
    /\ ~SessionKnown(sessionId)
    /\ nextUUID <= MaxSessions
    /\ CanSuspend
    /\ nextUUID' = nextUUID + 1
    /\ transports' = Append(transports, NewTransport(currentSessionId))
    /\ inflight' = inflight \cup
            {Suspend("connect", "new", req, FreshRes, currentSessionId,
                    Len(transports) + 1)}
    /\ UNCHANGED <<outsideVars, config, activeTransports, last, call>>

\* lines 1292-1310: no such session, up to await mcpServer.connect
PostNewSession(req, accept) ==
    LET sessionId == NormalizeSession(req.session)
        currentSessionId == randomUUID
    IN
    /\ validateOrigin(req.origin)
    /\ req.method = "POST"
    /\ AcceptInspection(accept)
    /\ req.body \notin {"initialize", "tools/list"}
    /\ ~SessionKnown(sessionId)
    /\ nextUUID <= MaxSessions
    /\ CanSuspend
    /\ nextUUID' = nextUUID + 1
    /\ transports' = Append(transports, NewTransport(currentSessionId))
    /\ inflight' = inflight \cup
            {Suspend("connect", "new", req, FreshRes, currentSessionId,
                    Len(transports) + 1)}
    /\ UNCHANGED <<outsideVars, config, activeTransports, last, call>>

\* faulty variant: a request with another method that names a registered
\* session is handed to that session's transport
MethodNotAllowedDelegates(req) ==
    LET sessionId == NormalizeSession(req.session) IN
    /\ validateOrigin(req.origin)
    /\ req.method \notin {"GET", "POST"}
    /\ IF SessionKnown(sessionId) /\ CanSuspend
       THEN /\ inflight' = inflight \cup
                    {Suspend("handle", "reuse", req, setSessionHeaders(FreshRes, sessionId),
                             sessionId, MapGet(activeTransports, sessionId))}
            /\ UNCHANGED last
       ELSE /\ last' = Exchange("method", req, Send(FreshRes, 405, "Method Not Allowed"))
            /\ UNCHANGED inflight
    /\ UNCHANGED <<outsideVars, config, activeTransports, transports, nextUUID, call>>

\* line 1323
MethodNotAllowed(req) ==
    /\ validateOrigin(req.origin)
    /\ req.method \notin {"GET", "POST"}
    /\ last' = Exchange("method", req, Send(FreshRes, 405, "Method Not Allowed"))
    /\ UNCHANGED <<outsideVars, config, activeTransports, transports, nextUUID, inflight, call>>


\* --------------------------------------------- app.all('/mcp'): resumed
\* the statuses a transport answers with
TransportStatuses == {200, 400}

\* faulty variant: connecting a transport to the server rebinds every
\* registered session to it
ConnectResolvesTakesOver(h) ==
    /\ h.pc = "connect"
    /\ activeTransports' =
          LET m == [sid \in DOMAIN activeTransports |-> h.transport] IN
          IF h.branch = "initialize"
          THEN MapSet(m, h.currentSessionId, h.transport)
          ELSE m
    /\ inflight' = (inflight \ {h}) \cup
          {[h EXCEPT !.pc = "handle",
                     !.res = setSessionHeaders(h.res, h.currentSessionId)]}
    /\ UNCHANGED <<outsideVars, config, transports, nextUUID, last, call>>

\* lines 1240-1253 and 1310-1318: connect resolved; the initialize branch
\* registers the transport at once; both set the header and await handleRequest
ConnectResolves(h) ==
    /\ h.pc = "connect"
    /\ activeTransports' =
          IF h.branch = "initialize"
          THEN MapSet(activeTransports, h.currentSessionId, h.transport)
          ELSE activeTransports
    /\ inflight' = (inflight \ {h}) \cup
          {[h EXCEPT !.pc = "handle",
                     !.res = setSessionHeaders(h.res, h.currentSessionId)]}
    /\ UNCHANGED <<outsideVars, config, transports, nextUUID, last, call>>

\* connect rejected: control passes to the catch block
ConnectRejects(h) ==
    /\ h.pc = "connect"
    /\ last' = Exchange("catch", h.req, CatchBlock(h.res))
    /\ inflight' = inflight \ {h}
    /\ UNCHANGED <<outsideVars, config, activeTransports, transports, nextUUID, call>>

\* lines 1229-1232, 1299-1302: the transport of a new session reports, while
\* it handles the request, the identifier its generator returned
SessionInitialized(h) ==
    /\ h.pc = "handle"
    /\ h.branch \in {"initialize", "new"}
    /\ ~h.initialized
    /\ activeTransports' =
          onsessioninitialized(activeTransports, transports[h.transport].sid, h.transport)
    /\ inflight' = (inflight \ {h}) \cup {[h EXCEPT !.initialized = TRUE]}
    /\ UNCHANGED <<outsideVars, config, transports, nextUUID, last, call>>

\* handleRequest resolved and the transport has written the response head
TransportResponds(h, status) ==
    /\ h.pc = "handle"
    /\ last' = Exchange("transport", h.req, Send(h.res, status, "transport"))
    /\ transports' =
          IF h.branch = "get" /\ status = 200 /\ h.transport \in DOMAIN transports
          THEN [transports EXCEPT ![h.transport].sse = TRUE]
          ELSE transports
    /\ inflight' = inflight \ {h}
    /\ UNCHANGED <<outsideVars, config, activeTransports, nextUUID, call>>

\* lines 1257-1267: the fallback initialize result
InitializeFallback(res, rpcId) ==
    [Send(res, 200, "result") EXCEPT !.id = rpcId, !.tools = getAllTools(config)]

\* faulty variant: no fallback, the handler returns without answering
TransportSilentNoFallback(h) ==
    /\ h.pc = "handle"
    /\ inflight' = inflight \ {h}
    /\ UNCHANGED <<outsideVars, config, activeTransports, transports, nextUUID, last, call>>

\* handleRequest resolved and nothing was written: initialize falls back to
\* its own result, the other branches return
TransportSilent(h) ==
    /\ h.pc = "handle"
    /\ last' = IF h.branch = "initialize"
               THEN Exchange("fallback", h.req, InitializeFallback(h.res, RpcId(h.req)))
               ELSE last
    /\ inflight' = inflight \ {h}
    /\ UNCHANGED <<outsideVars, config, activeTransports, transports, nextUUID, call>>

\* faulty variant: the catch block removes the entry of the failed request
TransportThrowsUnregisters(h, sent) ==
    LET res == IF sent THEN Send(h.res, 200, "transport") ELSE h.res
    IN
    /\ h.pc = "handle"
    /\ last' = Exchange("catch", h.req, CatchBlock(res))
    /\ inflight' = inflight \ {h}
    /\ activeTransports' = MapDelete(activeTransports, h.currentSessionId)
    /\ UNCHANGED <<outsideVars, config, transports, nextUUID, call>>

\* handleRequest rejected, before (sent = FALSE) or after (sent = TRUE) the
\* transport wrote the response head: control passes to the catch block
TransportThrows(h, sent) ==
    LET res == IF sent THEN Send(h.res, 200, "transport") ELSE h.res
    IN
    /\ h.pc = "handle"
    /\ last' = Exchange("catch", h.req, CatchBlock(res))
    /\ inflight' = inflight \ {h}
    /\ UNCHANGED <<outsideVars, config, activeTransports, transports, nextUUID, call>>

\* lines 1233-1236, 1303-1306: the client closes the SSE stream of a session
\* and the transport reports the closure
CloseSSE(t) ==
    /\ transports[t].sse
    /\ activeTransports' = onsessionclosed(activeTransports, transports[t].sid)
    /\ transports' = [transports EXCEPT ![t].sse = FALSE, ![t].closed = TRUE]
    /\ UNCHANGED <<outsideVars, config, nextUUID, inflight, last, call>>

\* the client takes the response; the next event is handled after that
ClientReads ==
    /\ last # NoExchange
    /\ last' = NoExchange
    /\ UNCHANGED <<outsideVars, config, activeTransports, transports, nextUUID, inflight, call>>

\* a request arrives, an awaited promise settles or a stream is closed once
\* the client has taken the last response
Next ==
    \/ ClientReads
    \/ Idle /\ \E req \in Requests : RejectOrigin(req)
    \/ Idle /\ \E req \in Requests : GetNoSession(req)
    \/ Idle /\ \E req \in Requests : GetStream(req)
    \/ Idle /\ \E req \in Requests, accept \in Accepts : PostInitialize(req, accept)
    \/ Idle /\ \E req \in Requests, accept \in Accepts : PostToolsList(req, accept)
    \/ Idle /\ \E req \in Requests, accept \in Accepts : PostReuse(req, accept)
    \/ Idle /\ \E req \in Requests, accept \in Accepts : PostNewSession(req, accept)
    \/ Idle /\ \E req \in Requests : MethodNotAllowed(req)
    \/ Idle /\ \E h \in inflight : ConnectResolves(h)
    \/ Idle /\ \E h \in inflight : ConnectRejects(h)
    \/ Idle /\ \E h \in inflight : SessionInitialized(h)
    \/ Idle /\ \E h \in inflight : \E status \in TransportStatuses : TransportResponds(h, status)
    \/ Idle /\ \E h \in inflight : TransportSilent(h)
    \/ Idle /\ \E h \in inflight : \E sent \in BOOLEAN : TransportThrows(h, sent)
    \/ Idle /\ \E t \in DOMAIN transports : CloseSSE(t)

Spec == Init /\ [][Next]_vars

\* ------------------------------------------------ tools/call dispatcher
Range(f) == {f[i] : i \in DOMAIN f}

\* name.startsWith('<word>_')
StartsWith(name, word) == Len(name) >= 2 /\ name[1] = word

\* the allow-lists of the router (lines 138, 140, 142)
SheetsNames == {<<"initialize", "sheet">>, <<"add", "customer", "record">>,
                <<"get", "customer", "record">>, <<"update", "customer", "record">>,
                <<"search", "customer", "records">>, <<"list", "all", "customers">>,
                <<"check", "customer", "history">>}
CalendlyNames == {<<"list", "event", "types">>, <<"get", "event", "type">>,
                  <<"get", "scheduling", "link">>, <<"list", "scheduled", "events">>,
                  <<"get", "event", "invitee">>, <<"cancel", "event">>,
                  <<"create", "event">>}
EmailNames == {<<"send", "appointment", "confirmation">>,
               <<"send", "appointment", "reminder">>, <<"send", "custom", "email">>}

\* faulty variant: the router tests the family prefixes only
RoutePrefixOnly(name) ==
    IF StartsWith(name, "sheets") THEN "sheets"
    ELSE IF StartsWith(name, "calendly") THEN "calendly"
    ELSE IF StartsWith(name, "email") THEN "email"
    ELSE "none"

\* lines 138-146: the adapter a name is routed to
Route(name) ==
    IF StartsWith(name, "sheets") \/ name \in SheetsNames THEN "sheets"
    ELSE IF StartsWith(name, "calendly") \/ name \in CalendlyNames THEN "calendly"
    ELSE IF StartsWith(name, "email") \/ name \in EmailNames THEN "email"
    ELSE "none"

\* the case labels of the adapters' switches (lines 449-463, 743-757, 1008-1014)
Cases(adapter) ==
    IF adapter = "sheets"
    THEN {<<"initialize", "sheet">>, <<"add", "customer", "record">>,
          <<"get", "customer", "record">>, <<"update", "customer", "record">>,
          <<"search", "customer", "records">>, <<"list", "all", "customers">>,
          <<"check", "customer", "history">>}
    ELSE IF adapter = "calendly"
    THEN {<<"list", "event", "types">>, <<"get", "event", "type">>,
          <<"get", "scheduling", "link">>, <<"list", "scheduled", "events">>,
          <<"get", "event", "invitee">>, <<"cancel", "event">>, <<"create", "event">>}
    ELSE {<<"send", "appointment", "confirmation">>,
          <<"send", "appointment", "reminder">>, <<"send", "custom", "email">>}

\* an Error's message: a fixed text and the name interpolated into it, if any
Message(text, name) == [text |-> text, name |-> name]

\* lines 446, 740, 1005
NotConfigured(adapter) ==
    IF adapter = "sheets" THEN Message("Google Sheets is not configured", <<>>)
    ELSE IF adapter = "calendly" THEN Message("Calendly is not configured", <<>>)
    ELSE Message("SendGrid is not configured", <<>>)

\* lines 465, 759, 1016
UnknownAdapterTool(adapter, name) ==
    IF adapter = "sheets" THEN Message("Unknown Google Sheets tool: ", name)
    ELSE IF adapter = "calendly" THEN Message("Unknown Calendly tool: ", name)
    ELSE Message("Unknown email tool: ", name)

\* what the handler hands back to the SDK: a value it returns, or an
\* exception it lets escape
Returned(prefix, message) == [threw |-> FALSE, prefix |-> prefix, message |-> message]
Threw(message) == [threw |-> TRUE, prefix |-> "", message |-> message]

\* faulty variant: the handler lets the error escape to the SDK
CatchToolErrorRethrows(message) == Threw(message)

\* lines 147-157: catch (error) { return { content: [{ text: `Error: ${message}` }] } }
CatchToolError(message) == Returned("Error: ", message)

\* lines 127-135
InitializeNames == {<<"initialize">>, <<"initialize", "session">>}

Done(name, outcome) == [pc |-> "done", name |-> name, outcome |-> outcome]

\* lines 118-158 up to the first await on a backend
CallToolRequest(name) ==
    /\ call = NoCall
    /\ call' =
         IF name \in InitializeNames
         THEN Done(name, Returned("", Message("Initialized", <<>>)))
         ELSE LET adapter == Route(name) IN
              IF adapter = "none"
              THEN Done(name, CatchToolError(Message("Unknown tool: ", name)))
              ELSE IF adapter \notin config
              THEN Done(name, CatchToolError(NotConfigured(adapter)))
              ELSE IF name \notin Cases(adapter)
              THEN Done(name, CatchToolError(UnknownAdapterTool(adapter, name)))
              ELSE [pc |-> "backend", name |-> name, adapter |-> adapter]
    /\ UNCHANGED <<outsideVars, config, activeTransports, transports, nextUUID, inflight, last>>

\* the awaited backend function returns its content
BackendResolves ==
    /\ call.pc = "backend"
    /\ call' = Done(call.name, Returned("", Message("content", <<>>)))
    /\ UNCHANGED <<outsideVars, config, activeTransports, transports, nextUUID, inflight, last>>

\* faulty variant: the failure of the backend bypasses the catch block
BackendRejectsUncaught ==
    /\ call.pc = "backend"
    /\ call' = Done(call.name, Threw(Message("upstream error", <<>>)))
    /\ UNCHANGED <<outsideVars, config, activeTransports, transports, nextUUID, inflight, last>>

\* the awaited backend function throws (upstream failure, bad argument)
BackendRejects ==
    /\ call.pc = "backend"
    /\ call' = Done(call.name, CatchToolError(Message("upstream error", <<>>)))
    /\ UNCHANGED <<outsideVars, config, activeTransports, transports, nextUUID, inflight, last>>

\* the HTTP statuses the scheduling service answers with
UpstreamStatuses == {200, 404, 500}

\* lines 763-780: calendlyRequest returns the JSON body of a 2xx response and
\* throws `Calendly API error: <status> <body>` for any other
calendlyRequest(status) ==
    IF status >= 200 /\ status <= 299
    THEN Returned("", Message("content", <<>>))
    ELSE Threw(Message("Calendly API error: ", <<status>>))

\* a Calendly tool's request to the scheduling service is answered
CalendlyResponds(status) ==
    /\ call.pc = "backend"
    /\ call.adapter = "calendly"
    /\ call' = Done(call.name,
                    IF calendlyRequest(status).threw
                    THEN CatchToolError(calendlyRequest(status).message)
                    ELSE calendlyRequest(status))
    /\ UNCHANGED <<outsideVars, config, activeTransports, transports, nextUUID, inflight, last>>

\* faulty variant: the handler answers with the list in its own order
ListToolsRequestOwnOrder ==
    /\ call = NoCall
    /\ call' = [pc |-> "listed",
                tools |-> getAllTools(config \ {"sheets"}) \o getAllTools(config \cap {"sheets"})]
    /\ UNCHANGED <<outsideVars, config, activeTransports, transports, nextUUID, inflight, last>>

\* lines 113-116: the ListTools handler of the server
ListToolsRequest ==
    /\ call = NoCall
    /\ call' = [pc |-> "listed", tools |-> getAllTools(config)]
    /\ UNCHANGED <<outsideVars, config, activeTransports, transports, nextUUID, inflight, last>>

\* the SDK has sent the outcome; the dispatcher serves the next call
CallCompletes ==
    /\ call.pc \in {"done", "listed"}
    /\ call' = NoCall
    /\ UNCHANGED <<outsideVars, config, activeTransports, transports, nextUUID, inflight, last>>

\* The JSON-RPC envelope the SDK writes for a handler outcome: a returned
\* value becomes `result`, an escaped exception becomes `error`.
Envelope(outcome) ==
    [status |-> 200,
     field |-> IF outcome.threw THEN "error" ELSE "result",
     prefix |-> outcome.prefix,
     message |-> outcome.message]

ToolNames ==
    Range(SheetsTools) \cup Range(CalendlyTools) \cup Range(EmailTools)
    \cup InitializeNames
    \cup {<<"frobnicate">>, <<"delete", "customer", "record">>, <<"sheets", "purge">>,
          <<"calendly", "purge">>, <<"email", "purge">>}

\* the tools/call request whose handler waits on the transport while the
\* dispatcher runs
ServedCall ==
    [method |-> "POST", origin |-> NoOrigin, session |-> <<1>>,
     body |-> "tools/call", id |-> "1"]

\* The dispatcher runs at start-up state (a stdio or in-process client) or
\* inside transport.handleRequest, while the /mcp handler of a tools/call on
\* a registered session is suspended.
InitTools ==
    /\ sheets = NoSheet
    /\ rest = NoRest
    /\ \E env \in Environments : config = Configuration(env)
    /\ last = NoExchange
    /\ call = NoCall
    /\ \/ /\ activeTransports = <<>>
          /\ transports = <<>>
          /\ nextUUID = 1
          /\ inflight = {}
       \/ /\ activeTransports = MapSet(<<>>, 1, 1)
          /\ transports = <<NewTransport(1)>>
          /\ nextUUID = 2
          /\ inflight = {Suspend("handle", "reuse", ServedCall,
                                 setSessionHeaders(FreshRes, 1), 1, 1)}

NextTools ==
    \/ \E name \in ToolNames : CallToolRequest(name)
    \/ BackendResolves
    \/ BackendRejects
    \/ \E status \in UpstreamStatuses : CalendlyResponds(status)
    \/ ListToolsRequest
    \/ CallCompletes
    \/ Idle /\ \E req \in Requests, accept \in Accepts : PostToolsList(req, accept)
    \/ ClientReads

SpecTools == InitTools /\ [][NextTools]_vars

\* ------------------------------------------------ Origin header (text)
\* The value of an Origin header is text: here a sequence of pieces, each a
\* word, the scheme "https://" or the dot.  A label of a host name is one
\* word or two words written together ("evil" "openai" is evilopenai).
MaxLabels == 4

OriginWords == {"evil", "openai", "com", "test", "localhost"}
OriginLabels == {<<w>> : w \in OriginWords} \cup {<<"evil", "openai">>}

\* the labels written with dots between them
RECURSIVE Dotted(_)
Dotted(labels) ==
    IF labels = <<>> THEN <<>>
    ELSE IF Len(labels) = 1 THEN labels[1]
    ELSE labels[1] \o <<".">> \o Dotted(Tail(labels))

\* req.headers.origin: undefined when the header is not sent, its text
\* (possibly empty, possibly without a scheme or without a host) otherwise
NoHeader == [present |-> FALSE, value |-> <<>>]
OriginHeaders ==
    {NoHeader} \cup
    {[present |-> TRUE, value |-> scheme \o Dotted(labels)] :
        scheme \in {<<>>, <<"https://">>},
        labels \in UNION {[1..n -> OriginLabels] : n \in 0..MaxLabels}}

\* the host name of a parsed URL as its dot-separated labels
RECURSIVE SplitLabels(_, _, _)
SplitLabels(text, label, labels) ==
    IF text = <<>> THEN Append(labels, label)
    ELSE IF Head(text) = "." THEN SplitLabels(Tail(text), "", Append(labels, label))
    ELSE SplitLabels(Tail(text), label \o Head(text), labels)

\* lines 1113-1119: `!origin` holds of undefined and of the empty string;
\* new URL(origin) throws unless the text is a scheme followed by a host
ParseOrigin(header) ==
    IF ~header.present \/ header.value = <<>> THEN NoOrigin
    ELSE IF Head(header.value) # "https://" \/ Len(header.value) = 1 THEN BadUrl
    ELSE Url(SplitLabels(Tail(header.value), "", <<>>))

\* a GET /mcp without a session header that carries the Origin header
OriginRequest(header) ==
    [method |-> "GET", origin |-> ParseOrigin(header), session |-> <<>>,
     body |-> "none", id |-> "absent", header |-> header]

\* lines 1183-1201: the Origin check decides between 403 and the rest of
\* the handler (here the 400 of a GET without session)
NextOrigin ==
    \/ Idle /\ \E header \in OriginHeaders : RejectOrigin(OriginRequest(header))
    \/ Idle /\ \E header \in OriginHeaders : GetNoSession(OriginRequest(header))
    \/ ClientReads

SpecOrigin == Init /\ [][NextOrigin]_vars

\* ------------------------------------------- customer-record tools (sheet)
\* The customer sheet is served by two implementations of the same tools:
\* the gateway's (mcp-server.ts 502-632) and the stand-alone spreadsheet
\* server's (sheets-server.ts 294-425).  A row holds the ten cells A..J.
MaxRecords == 2
MaxClock == 5

Impls == {"gateway", "standalone"}
Fields == {"name", "email", "phone", "issue", "status", "priority", "notes"}

\* a property the caller did not supply (JavaScript undefined); the SDK does
\* not check arguments against the input schema
Absent == "undefined"

\* the arguments of add_customer_record: the five required fields, phone
\* and notes supplied, supplied empty or omitted
AddInputs ==
    {r \in [Fields -> {Absent, "", "ann", "e", "555", "i", "open", "low", "vip"}] :
        /\ r["name"] = "ann"
        /\ r["email"] = "e"
        /\ r["phone"] \in {Absent, "", "555"}
        /\ r["issue"] = "i"
        /\ r["status"] = "open"
        /\ r["priority"] = "low"
        /\ r["notes"] \in {Absent, "", "vip"}}

\* the fields an update_customer_record supplies: at most two of name,
\* phone, status and notes, with a new value or the empty string
UpdateInputs ==
    {u \in [Fields -> {Absent, "", "new"}] :
        /\ Cardinality({f \in Fields : u[f] # Absent}) <= 2
        /\ \A f \in {"email", "issue", "priority"} : u[f] = Absent
        /\ u["status"] # ""}

\* `x || ''`
OrEmpty(x) == IF x = Absent \/ x = "" THEN "" ELSE x

\* `x || y`
OrElse(x, y) == IF x = Absent \/ x = "" THEN y ELSE x

\* `x !== undefined ? x : y`
IfDefined(x, y) == IF x # Absent THEN x ELSE y

Row(id, name, email, phone, issue, status, priority, createdAt, updatedAt, notes) ==
    [id |-> id, name |-> name, email |-> email, phone |-> phone, issue |-> issue,
     status |-> status, priority |-> priority, createdAt |-> createdAt,
     updatedAt |-> updatedAt, notes |-> notes]

\* the header occupies row 1 of the sheet: data row i is sheet row i + 1
HeaderRows == 1

\* spreadsheets.values.get: the rows of the range; trailing empty cells of a
\* row are left out, so an empty notes cell (column J) reads as undefined
valuesGet(rows) ==
    [i \in DOMAIN rows |->
        IF rows[i].notes = "" THEN [rows[i] EXCEPT !.notes = Absent] ELSE rows[i]]

\* a cell written with valueInputOption RAW: a string is stored as it is, an
\* undefined element of the row leaves the cell as it was
Cell(old, new) == IF new = Absent THEN old ELSE new

\* the cells of a row after `row` is written over `old` (the identifier and
\* the two timestamps are never undefined)
Written(old, row) ==
    [c \in DOMAIN row |->
        IF c \in Fields THEN Cell(old[c], row[c]) ELSE row[c]]

\* spreadsheets.values.append: the row goes below the last row of the table,
\* into empty cells
valuesAppend(rows, row) ==
    Append(rows, Written([c \in DOMAIN row |-> ""], row))

\* spreadsheets.values.update of one row
valuesUpdate(rows, i, row) ==
    [rows EXCEPT ![i] = Written(rows[i], row)]

\* rows.findIndex(row => row[0] === id), 0 for -1
FindIndex(rows, id) ==
    IF \E i \in DOMAIN rows : rows[i].id = id
    THEN CHOOSE i \in DOMAIN rows : rows[i].id = id /\ \A j \in 1..(i - 1) : rows[j].id # id
    ELSE 0

\* faulty variant: the phone is read from the column of the issue
RecordOfShifted(row) ==
    [id |-> row.id, name |-> row.name, email |-> row.email, phone |-> row.issue,
     issue |-> row.issue, status |-> row.status, priority |-> row.priority,
     createdAt |-> row.createdAt, updatedAt |-> row.updatedAt, notes |-> row.notes]

\* the record built from the cells of a row, by position, and printed by
\* JSON.stringify (an undefined cell is a missing key)
RecordOf(row) ==
    [id |-> row.id, name |-> row.name, email |-> row.email, phone |-> row.phone,
     issue |-> row.issue, status |-> row.status, priority |-> row.priority,
     createdAt |-> row.createdAt, updatedAt |-> row.updatedAt, notes |-> row.notes]

SheetExchange(tool, args, result) == [tool |-> tool, args |-> args, result |-> result]
NoTool == [tool |-> "none"]
NoAdd == [id |-> 0]

InitSheets ==
    /\ \E impl \in Impls :
          sheets = [impl |-> impl, rows |-> <<>>, now |-> 1, uuid |-> 1,
                    last |-> NoTool, added |-> NoAdd]
    /\ rest = NoRest
    /\ config = Backends
    /\ activeTransports = <<>>
    /\ transports = <<>>
    /\ nextUUID = 1
    /\ inflight = {}
    /\ last = NoExchange
    /\ call = NoCall

\* every request to the Sheets API takes time: the clock has advanced when
\* the awaited call returns
ApiCalls(n) == sheets.now + n

\* mcp-server.ts 502-536 and sheets-server.ts 294-336: add_customer_record
AddCustomerRecord(record) ==
    LET timestamp == sheets.now
        rowNumber == Len(sheets.rows) + 1 + HeaderRows
        id == IF sheets.impl = "gateway" THEN sheets.uuid ELSE rowNumber
        row == Row(id, record["name"], record["email"], OrEmpty(record["phone"]),
                   record["issue"], record["status"], record["priority"],
                   timestamp, timestamp, OrEmpty(record["notes"]))
    IN
    /\ sheets.impl \in Impls
    /\ Len(sheets.rows) < MaxRecords
    /\ ApiCalls(2) <= MaxClock
    /\ sheets' = [sheets EXCEPT
            !.rows = valuesAppend(sheets.rows, row),
            !.uuid = IF sheets.impl = "gateway" THEN @ + 1 ELSE @,
            !.now = IF sheets.impl = "gateway" THEN ApiCalls(1) ELSE ApiCalls(2),
            !.last = SheetExchange("add_customer_record", record,
                                   [kind |-> "created", id |-> id]),
            !.added = [id |-> id, record |-> record]]
    /\ UNCHANGED <<gatewayVars, rest>>

\* the identifiers a caller asks for: those handed out and one never handed out
RecordIds == (1 + HeaderRows)..(MaxRecords + 1 + HeaderRows)

\* mcp-server.ts 538-579 and sheets-server.ts 338-378: get_customer_record
GetCustomerRecord(id) ==
    LET rows == valuesGet(sheets.rows)
        index == IF sheets.impl = "gateway" THEN FindIndex(rows, id)
                 ELSE IF id - HeaderRows \in DOMAIN rows THEN id - HeaderRows ELSE 0
    IN
    /\ sheets.impl \in Impls
    /\ ApiCalls(1) <= MaxClock
    /\ sheets' = [sheets EXCEPT
            !.now = ApiCalls(1),
            !.last = SheetExchange("get_customer_record", id,
                        IF index = 0
                        THEN [kind |-> "not found", threw |-> sheets.impl = "standalone"]
                        ELSE [kind |-> "record", record |-> RecordOf(rows[index])])]
    /\ UNCHANGED <<gatewayVars, rest>>

\* faulty variant: a field that is not supplied is cleared, and the time of
\* creation is written anew
updatedRowOverwrites(impl, existing, update, timestamp) ==
    Row(existing.id, OrEmpty(update["name"]), OrEmpty(update["email"]),
        OrEmpty(update["phone"]), OrEmpty(update["issue"]), OrEmpty(update["status"]),
        OrEmpty(update["priority"]), timestamp, timestamp, OrEmpty(update["notes"]))

\* mcp-server.ts 599-610 and sheets-server.ts 399-410: the row written
updatedRow(impl, existing, update, timestamp) ==
    IF impl = "gateway"
    THEN Row(existing.id,
             IfDefined(update["name"], existing.name),
             IfDefined(update["email"], existing.email),
             IfDefined(update["phone"], existing.phone),
             IfDefined(update["issue"], existing.issue),
             IfDefined(update["status"], existing.status),
             IfDefined(update["priority"], existing.priority),
             existing.createdAt,
             timestamp,
             IfDefined(update["notes"], existing.notes))
    ELSE Row(existing.id,
             OrElse(update["name"], existing.name),
             OrElse(update["email"], existing.email),
             IfDefined(update["phone"], existing.phone),
             OrElse(update["issue"], existing.issue),
             OrElse(update["status"], existing.status),
             OrElse(update["priority"], existing.priority),
             existing.createdAt,
             timestamp,
             IfDefined(update["notes"], existing.notes))

\* mcp-server.ts 581-632 and sheets-server.ts 380-425: update_customer_record
UpdateCustomerRecord(id, update) ==
    LET rows == valuesGet(sheets.rows)
        index == IF sheets.impl = "gateway" THEN FindIndex(rows, id)
                 ELSE IF id - HeaderRows \in DOMAIN rows THEN id - HeaderRows ELSE 0
        \* the gateway reads the clock after the rows have arrived, the
        \* stand-alone server before it asks for them
        timestamp == IF sheets.impl = "gateway" THEN ApiCalls(1) ELSE sheets.now
    IN
    /\ sheets.impl \in Impls
    /\ ApiCalls(2) <= MaxClock
    /\ sheets' = [sheets EXCEPT
            !.rows = IF index = 0 THEN @
                     ELSE valuesUpdate(@, index,
                              updatedRow(sheets.impl, rows[index], update, timestamp)),
            !.now = IF index = 0 THEN ApiCalls(1) ELSE ApiCalls(2),
            !.last = SheetExchange("update_customer_record",
                        [id |-> id, update |-> update],
                        IF index = 0
                        THEN [kind |-> "not found", threw |-> sheets.impl = "standalone"]
                        ELSE [kind |-> "updated", id |-> id, index |-> index]),
            !.added = NoAdd]
    /\ UNCHANGED <<gatewayVars, rest>>

NextSheets ==
    \/ \E record \in AddInputs : AddCustomerRecord(record)
    \/ \E id \in RecordIds : GetCustomerRecord(id)
    \/ \E id \in RecordIds, update \in UpdateInputs : UpdateCustomerRecord(id, update)

SpecSheets == InitSheets /\ [][NextSheets]_vars

\* ------------------------------------- update_customer_record, interleaved
\* An invocation of update_customer_record awaits the Sheets API twice:
\* values.get, then values.update of the whole row A..J computed from the
\* row that get returned.  Other invocations run between the two.
Callers == {"first", "second"}

\* the updates the callers send: one field set to a new value
FieldUpdates ==
    {u \in UpdateInputs :
        /\ Cardinality({f \in Fields : u[f] # Absent}) = 1
        /\ \A f \in Fields : u[f] \in {Absent, "new"}}

\* the sheet holds one record, added earlier; no invocation is running
InitUpdates ==
    /\ \E impl \in Impls, record \in AddInputs :
          LET id == IF impl = "gateway" THEN 1 ELSE 1 + HeaderRows
              row == Row(id, record["name"], record["email"], OrEmpty(record["phone"]),
                         record["issue"], record["status"], record["priority"],
                         0, 0, OrEmpty(record["notes"]))
          IN sheets = [impl |-> impl, rows |-> valuesAppend(<<>>, row), now |-> 1,
                       uuid |-> 2, last |-> NoTool, added |-> NoAdd,
                       pending |-> {}, finished |-> {}]
    /\ rest = NoRest
    /\ config = Backends
    /\ activeTransports = <<>>
    /\ transports = <<>>
    /\ nextUUID = 1
    /\ inflight = {}
    /\ last = NoExchange
    /\ call = NoCall

\* the callers that have not invoked the tool yet
Waiting ==
    {c \in Callers :
        /\ \A p \in sheets.pending : p.caller # c
        /\ \A d \in sheets.finished : d.caller # c}

\* mcp-server.ts 582-599 and sheets-server.ts 381-393: values.get returns;
\* a record that is not found ends the invocation
UpdateReads(caller, id, update) ==
    LET rows == valuesGet(sheets.rows)
        index == IF sheets.impl = "gateway" THEN FindIndex(rows, id)
                 ELSE IF id - HeaderRows \in DOMAIN rows THEN id - HeaderRows ELSE 0
        timestamp == IF sheets.impl = "gateway" THEN ApiCalls(1) ELSE sheets.now
    IN
    /\ caller \in Waiting
    /\ ApiCalls(1) <= MaxClock
    /\ sheets' = [sheets EXCEPT
            !.now = ApiCalls(1),
            !.pending = IF index = 0 THEN @
                        ELSE @ \cup {[caller |-> caller, id |-> id, update |-> update,
                                      index |-> index, existing |-> rows[index],
                                      timestamp |-> timestamp]},
            !.finished = IF index # 0 THEN @
                         ELSE @ \cup {[caller |-> caller, id |-> id, update |-> update,
                                       kind |-> "not found"]}]
    /\ UNCHANGED <<gatewayVars, rest>>

\* mcp-server.ts 600-631 and sheets-server.ts 395-424: the row computed
\* from the row that was read is written over the whole range A..J
UpdateWrites(p) ==
    /\ p \in sheets.pending
    /\ ApiCalls(1) <= MaxClock
    /\ sheets' = [sheets EXCEPT
            !.rows = valuesUpdate(@, p.index,
                         updatedRow(sheets.impl, p.existing, p.update, p.timestamp)),
            !.now = ApiCalls(1),
            !.pending = @ \ {p},
            !.finished = @ \cup {[caller |-> p.caller, id |-> p.id, update |-> p.update,
                                  kind |-> "updated"]},
            !.last = SheetExchange("update_customer_record",
                        [id |-> p.id, update |-> p.update],
                        [kind |-> "updated", id |-> p.id, index |-> p.index])]
    /\ UNCHANGED <<gatewayVars, rest>>

NextUpdates ==
    \/ \E caller \in Callers, update \in FieldUpdates :
          \E id \in {sheets.rows[1].id, sheets.rows[1].id + 1} :
             UpdateReads(caller, id, update)
    \/ \E p \in sheets.pending : UpdateWrites(p)

SpecUpdates == InitUpdates /\ [][NextUpdates]_vars

\* ------------------------------------------------------------ REST wrapper
\* The REST wrapper (unnamed/part_002) answers /api requests through a chain
\* of middleware and hands tool listings and executions to the MCP bridge
\* (unnamed/part_000, class MCPBridge).

\* the limiter's `max: 100` requests per window, scaled down
RateLimitMax == 2

\* process.env.REST_API_KEY: unset, set empty, set
ApiKeys == {Absent, "", "secret"}

\* what a request carries in the x-api-key header and in ?api_key=
Credentials == {Absent, "secret", "wrong"}

\* JavaScript truthiness of a string that may be undefined
Truthy(x) == x # Absent /\ x # ""

\* the servers the bridge can hold (initializeServers, part_000 557-592)
ServerNames == {"sheets", "calendly"}

\* sheets-server.ts getTools (96-262), calendly-server.ts getTools (93-269)
SheetsServerTools ==
    <<"initialize_sheet", "add_customer_record", "get_customer_record",
      "update_customer_record", "search_customer_records", "list_all_customers">>
CalendlyServerTools ==
    <<"create_event", "list_event_types", "get_event_type", "get_scheduling_link",
      "list_scheduled_events", "get_event_invitee", "cancel_event",
      "check_availability", "book_appointment">>

\* the cases of the two switch statements of the bridge (part_000 696-711,
\* 724-739)
callSheetsToolDirectCases ==
    {"initialize_sheet", "add_customer_record", "get_customer_record",
     "update_customer_record", "search_customer_records", "list_all_customers"}
callCalendlyToolDirectCases ==
    {"list_event_types", "get_event_type", "get_scheduling_link",
     "list_scheduled_events", "get_event_invitee", "cancel_event"}

\* part_000 601-627: null for a server the bridge does not hold
getServerInfo(servers, serverName) ==
    IF serverName \notin servers
    THEN [found |-> FALSE, tools |-> <<>>]
    ELSE [found |-> TRUE,
          tools |-> IF serverName = "sheets" THEN SheetsServerTools
                    ELSE IF serverName = "calendly" THEN CalendlyServerTools
                    ELSE <<>>]

\* part_000 745-752
validateTool(servers, serverName, toolName) ==
    LET info == getServerInfo(servers, serverName) IN
    /\ info.found
    /\ \E i \in DOMAIN info.tools : info.tools[i] = toolName

BridgeResult(success, dispatched, error) ==
    [success |-> success, dispatched |-> dispatched, error |-> error]

\* part_000 648-743: callTool with callSheetsToolDirect and
\* callCalendlyToolDirect; `backend` is how the server's own method ends
callTool(servers, serverName, toolName, backend) ==
    IF serverName \notin servers
    THEN BridgeResult(FALSE, FALSE, "Server not found or not configured")
    ELSE IF \/ serverName = "sheets" /\ toolName \in callSheetsToolDirectCases
            \/ serverName = "calendly" /\ toolName \in callCalendlyToolDirectCases
    THEN IF backend = "resolves"
         THEN BridgeResult(TRUE, TRUE, "")
         ELSE BridgeResult(FALSE, TRUE, "upstream error")
    ELSE BridgeResult(FALSE, FALSE, "Unknown tool: ")

\* the routes under /api (part_002 114-260) and a path with no route
Routes == {"GET /api/servers", "GET /api/servers/:server/tools", "GET /api/tools",
           "POST /api/servers/:server/tools/:tool", "POST /api/call",
           "GET /api/nowhere"}

RequestedServers == ServerNames \cup {"email"}
RequestedTools ==
    {SheetsServerTools[i] : i \in DOMAIN SheetsServerTools}
    \cup {CalendlyServerTools[i] : i \in DOMAIN CalendlyServerTools}
    \cup {"check_customer_history"}

Request(route, server, tool, header, query, body) ==
    [route |-> route, server |-> server, tool |-> tool, header |-> header,
     query |-> query, body |-> body]

RestRequests ==
    {Request(route, "none", "none", header, query, "none") :
        route \in {"GET /api/servers", "GET /api/tools", "GET /api/nowhere"},
        header \in Credentials, query \in Credentials}
    \cup {Request("GET /api/servers/:server/tools", server, "none", header, query, "none") :
            server \in RequestedServers, header \in Credentials, query \in Credentials}
    \cup {Request(route, server, tool, header, query, body) :
            route \in {"POST /api/servers/:server/tools/:tool", "POST /api/call"},
            server \in RequestedServers, tool \in RequestedTools,
            header \in Credentials, query \in Credentials,
            body \in {"json", "malformed"}}

Answer(req, answeredBy, status, bridge, result) ==
    [req |-> req, answeredBy |-> answeredBy, status |-> status, bridge |-> bridge,
     result |-> result]
NoAnswer == [answeredBy |-> "none"]
NoResult == BridgeResult(FALSE, FALSE, "")

\* faulty variant: a request that presents no key at all is let through
authenticateApiKeyLax(API_KEY, req) ==
    LET apiKey == IF Truthy(req.header) THEN req.header ELSE req.query IN
    IF ~Truthy(API_KEY) THEN "next"
    ELSE IF Truthy(apiKey) /\ apiKey # API_KEY THEN "401"
    ELSE "next"

\* part_002 39-58
authenticateApiKey(API_KEY, req) ==
    LET apiKey == IF Truthy(req.header) THEN req.header ELSE req.query IN
    IF ~Truthy(API_KEY) THEN "next"
    ELSE IF ~Truthy(apiKey) \/ apiKey # API_KEY THEN "401"
    ELSE "next"

\* part_002 114-271 and 752-757: the route handlers
RouteAnswer(servers, req, backend) ==
    CASE req.route = "GET /api/servers" ->
            Answer(req, "route", 200, {"getAvailableServers", "getServerInfo"}, NoResult)
      [] req.route = "GET /api/servers/:server/tools" ->
            Answer(req, "route",
                   IF getServerInfo(servers, req.server).found THEN 200 ELSE 404,
                   {"getServerInfo"}, NoResult)
      [] req.route = "GET /api/tools" ->
            Answer(req, "route", 200, {"getAllTools"}, NoResult)
      [] req.route = "POST /api/servers/:server/tools/:tool" ->
            IF ~validateTool(servers, req.server, req.tool)
            THEN Answer(req, "route", 404, {"validateTool"}, NoResult)
            ELSE LET result == callTool(servers, req.server, req.tool, backend) IN
                 Answer(req, "route", IF result.success THEN 200 ELSE 400,
                        {"validateTool", "callTool"}, result)
      [] req.route = "POST /api/call" ->
            LET result == callTool(servers, req.server, req.tool, backend) IN
            Answer(req, "route", IF result.success THEN 200 ELSE 400,
                   {"callTool"}, result)
      [] OTHER -> Answer(req, "404 handler", 404, {}, NoResult)

InitRest ==
    /\ \E key \in ApiKeys, servers \in SUBSET ServerNames :
          rest = [pc |-> "listening", API_KEY |-> key, servers |-> servers,
                  hits |-> 0, last |-> NoAnswer]
    /\ sheets = NoSheet
    /\ config = Backends
    /\ activeTransports = <<>>
    /\ transports = <<>>
    /\ nextUUID = 1
    /\ inflight = {}
    /\ last = NoExchange
    /\ call = NoCall

\* part_002 20-61 and the routes: one request through express.json, the
\* rate limiter, authenticateApiKey and its route
ApiRequest(req, backend) ==
    /\ rest.pc = "listening"
    /\ IF req.body = "malformed"
       THEN \* express.json passes its error to the error handler (64-70)
            rest' = [rest EXCEPT !.last = Answer(req, "error handler", 500, {}, NoResult)]
       ELSE IF rest.hits >= RateLimitMax
       THEN rest' = [rest EXCEPT !.last = Answer(req, "limiter", 429, {}, NoResult)]
       ELSE IF authenticateApiKey(rest.API_KEY, req) = "401"
       THEN rest' = [rest EXCEPT !.hits = @ + 1,
                                 !.last = Answer(req, "authenticateApiKey", 401, {}, NoResult)]
       ELSE rest' = [rest EXCEPT !.hits = @ + 1,
                                 !.last = RouteAnswer(rest.servers, req, backend)]
    /\ UNCHANGED <<gatewayVars, sheets>>

\* the limiter's window of fifteen minutes ends
WindowElapses ==
    /\ rest.pc = "listening"
    /\ rest.last = NoAnswer
    /\ rest.hits > 0
    /\ rest' = [rest EXCEPT !.hits = 0]
    /\ UNCHANGED <<gatewayVars, sheets>>

\* the client has taken the response
RestClientReads ==
    /\ rest.pc = "listening"
    /\ rest.last # NoAnswer
    /\ rest' = [rest EXCEPT !.last = NoAnswer]
    /\ UNCHANGED <<gatewayVars, sheets>>

\* a request is served once the client has taken the last response
RestIdle == rest.last = NoAnswer

NextRest ==
    \/ RestIdle /\ \E req \in RestRequests, backend \in {"resolves", "rejects"} :
                      ApiRequest(req, backend)
    \/ WindowElapses
    \/ RestClientReads

SpecRest == InitRest /\ [][NextRest]_vars

\* ================================================================ claims
\* ------------------------------------------------ vocabulary of the claims
\* the Origin header names a host that is neither on the allow-list nor a
\* subdomain of a host on it
OriginOffList(origin) ==
    /\ origin.kind = "url"
    /\ \A host \in allowedHosts :
          origin.host # host /\ ~EndsWithDot(origin.host, host)

\* the request passes the Origin check: no Origin header, or a listed host
OriginPasses(origin) ==
    origin.kind = "absent" \/ (origin.kind = "url" /\ ~OriginOffList(origin))

\* the session identifier a request presents, Undefined when it presents none
Presented(req) == NormalizeSession(req.session)

\* sid is a key of the session map
Registered(sid) == sid \in DOMAIN activeTransports

\* a POST that is neither initialize nor tools/list
GenericPost(req) ==
    req.method = "POST" /\ req.body \notin {"initialize", "tools/list"}

\* this step writes a response
Responds == last = NoExchange /\ last' # NoExchange

\* this step answers a request in the stretch it arrived in
AnsweredOnArrival == Responds /\ inflight' = inflight

\* the handlers this step suspends for a request that has just arrived
Arrivals ==
    IF Cardinality(inflight') = Cardinality(inflight) + 1
    THEN inflight' \ inflight
    ELSE {}

\* the handlers that finish in this step
Finishing ==
    IF Cardinality(inflight') + 1 = Cardinality(inflight)
    THEN inflight \ inflight'
    ELSE {}

\* sid was the identifier of a session whose stream has been closed
ClosedId(sid) ==
    \E t \in DOMAIN transports : transports[t].closed /\ transports[t].sid = sid

\* ---------------------------------------------------------------------
\* C1: every POST /mcp with method initialize, no Mcp-Session-Id request
\* header and an accepted Origin gets a response with a non-empty
\* Mcp-Session-Id header whose value is a key of the session map when the
\* response is written.
C1_InitializeAnswerNamesSession ==
    (/\ last # NoExchange
     /\ last.req.method = "POST"
     /\ last.req.body = "initialize"
     /\ last.req.session = <<>>
     /\ OriginPasses(last.req.origin))
    => /\ last.res.session # Undefined
       /\ Registered(last.res.session)

\* ---------------------------------------------------------------------
\* C2: a GET /mcp (past the Origin check) whose Mcp-Session-Id header is
\* absent, blank or not a key of the session map is answered 400 in the
\* stretch it arrives in; it is never handed to a transport, and the session
\* map, the transports and the identifiers issued are unchanged.
C2_GetUnknownSessionRejected ==
    [][/\ (/\ AnsweredOnArrival
           /\ last'.req.method = "GET"
           /\ OriginPasses(last'.req.origin)
           /\ ~Registered(Presented(last'.req)))
          => /\ last'.res.status = 400
             /\ last'.res.body = <<"Bad Request: Session not found. Initialize session first via POST /mcp">>
             /\ UNCHANGED <<activeTransports, transports, nextUUID>>
       /\ \A h \in Arrivals :
             h.req.method = "GET"
             => /\ Registered(Presented(h.req))
                /\ h.transport = activeTransports[Presented(h.req)]
                /\ UNCHANGED <<activeTransports, transports, nextUUID>>
      ]_vars

\* a GET naming an identifier the server never issued was answered 400 while
\* another session was registered
C2_Witness ==
    /\ last.writer = "get"
    /\ last.req.session = <<BogusId>>
    /\ last.res.status = 400
    /\ activeTransports # <<>>

C4_EveryPostAnswerNamesSession ==
    (/\ last # NoExchange
     /\ last.req.method = "POST"
     /\ OriginPasses(last.req.origin)
     /\ last.writer \in {"tools/list", "transport", "fallback"}
     /\ last.writer = "tools/list" => Registered(Presented(last.req)))
    => /\ last.res.session # Undefined
       /\ last.writer = "tools/list" => last.res.session = Presented(last.req)
       /\ \E i \in DOMAIN last.res.expose : last.res.expose[i] = "Mcp-Session-Id"

\* ---------------------------------------------------------------------
\* the vocabulary of the claims about tools/call
\* no adapter declares a tool of this name
NoAdapterOwns(name) ==
    /\ \A i \in DOMAIN SheetsTools : SheetsTools[i] # name
    /\ \A i \in DOMAIN CalendlyTools : CalendlyTools[i] # name
    /\ \A i \in DOMAIN EmailTools : EmailTools[i] # name

\* the name carries the family prefix of a backend that is not configured
PrefixOfUnconfigured(name) ==
    /\ Len(name) >= 2
    /\ name[1] \in Backends
    /\ name[1] \notin config

C6_ToolsListStateless ==
    [][/\ \A h \in inflight' : ~(h.req.method = "POST" /\ h.req.body = "tools/list")
       /\ (/\ Responds
           /\ last'.req.method = "POST"
           /\ last'.req.body = "tools/list"
           /\ OriginPasses(last'.req.origin))
          => /\ last'.res.status = 200
             /\ last'.res.body = <<"result">>
             /\ last'.res.tools = getAllTools(config)
             /\ Len(last'.res.tools) =
                   Cardinality({b \in config : b = "sheets"}) * Len(SheetsTools)
                   + Cardinality({b \in config : b = "calendly"}) * Len(CalendlyTools)
                   + Cardinality({b \in config : b = "email"}) * Len(EmailTools)
             /\ UNCHANGED <<outsideVars, config, activeTransports, transports, nextUUID, inflight>>
      ]_vars

\* tools/list was answered with the registry before any initialize and
\* without a session header
C6_Witness ==
    /\ last.writer = "tools/list"
    /\ last.req.session = <<>>
    /\ nextUUID = 1
    /\ activeTransports = <<>>
    /\ last.res.tools = SheetsTools \o CalendlyTools \o EmailTools

\* ---------------------------------------------------------------------
\* C7: when the SSE stream of a session is closed the closure callback runs,
\* and from then on the session's identifier is not a key of the session
\* map: a later GET presenting it is answered 400 and a later POST
\* presenting it is not bound to the closed session's transport.
C7_ClosedSessionForgotten ==
    [][/\ \A t \in DOMAIN transports :
             (transports[t].sse /\ ~transports'[t].sse)
             => /\ transports'[t].closed
                /\ transports[t].sid \notin DOMAIN activeTransports'
       /\ \A t \in DOMAIN transports' :
             transports'[t].closed => transports'[t].sid \notin DOMAIN activeTransports'
       /\ (/\ AnsweredOnArrival
           /\ last'.req.method = "GET"
           /\ OriginPasses(last'.req.origin)
           /\ ClosedId(Presented(last'.req)))
          => last'.res.status = 400
       /\ \A h \in Arrivals :
             ClosedId(Presented(h.req))
             => /\ h.req.method = "POST"
                /\ h.transport \notin DOMAIN transports
      ]_vars

\* a session's stream was closed and a later GET presenting its identifier
\* was answered 400
C7_Witness ==
    /\ last.writer = "get"
    /\ last.res.status = 400
    /\ ClosedId(Presented(last.req))

\* ---------------------------------------------------------------------
\* C8: in every reachable state each key of the session map is the
\* identifier of the one transport it maps to, and no two transports ever
\* constructed, open or closed, share an identifier: a closed session's
\* identifier is never issued again.
C8_IdentifiersNeverReused ==
    /\ \A k \in DOMAIN activeTransports :
          /\ activeTransports[k] \in DOMAIN transports
          /\ transports[activeTransports[k]].sid = k
    /\ \A i, j \in DOMAIN transports :
          i # j => transports[i].sid # transports[j].sid

\* a session was closed and another session is registered
C8_Witness ==
    \E i, j \in DOMAIN transports :
        /\ i # j
        /\ transports[i].closed
        /\ Registered(transports[j].sid)

\* ---------------------------------------------------------------------
\* C9: a POST /mcp other than initialize and tools/list (past the Origin
\* check) that presents a key of the session map is handed to the transport
\* the map holds for it: no transport and no identifier is created, the
\* session map is unchanged, and the response header echoes the identifier.
C9_RegisteredPostReusesTransport ==
    [][/\ (/\ AnsweredOnArrival
           /\ GenericPost(last'.req)
           /\ OriginPasses(last'.req.origin))
          => ~Registered(Presented(last'.req))
       /\ \A h \in Arrivals :
             (GenericPost(h.req) /\ Registered(Presented(h.req)))
             => /\ h.branch = "reuse"
                /\ h.pc = "handle"
                /\ h.transport = activeTransports[Presented(h.req)]
                /\ h.res.session = Presented(h.req)
                /\ UNCHANGED <<activeTransports, transports, nextUUID>>
       /\ \A h \in Finishing :
             (h.branch = "reuse" /\ Responds)
             => /\ last'.req = h.req
                /\ last'.res.session = Presented(h.req)
                /\ UNCHANGED <<activeTransports, nextUUID>>
                /\ Len(transports') = Len(transports)
      ]_vars

\* a tools/call presenting a registered identifier was answered by the
\* transport with that identifier in the response header
C9_Witness ==
    /\ last.writer = "transport"
    /\ GenericPost(last.req)
    /\ Registered(Presented(last.req))
    /\ last.res.session = Presented(last.req)
    /\ Len(transports) = 1

\* ---------------------------------------------------------------------
\* C10: when handling a request throws, the catch block answers 500 with
\* the JSON-RPC error -32603 and id null if no response head had been sent,
\* and leaves the response as the transport wrote it if one had.
C10_CatchBlockAnswer ==
    last.writer = "catch"
    => \/ /\ last.res.body = <<"error">>
          /\ last.res.status = 500
          /\ last.res.code = -32603
          /\ last.res.id = "null"
       \/ /\ last.res.body = <<"transport">>
          /\ last.res.status = 200
          /\ last.res.code = 0
          /\ last.res.id = "none"

\* the transport threw before it wrote anything and the client got the 500
C10_Witness ==
    /\ last.writer = "catch"
    /\ last.res.status = 500
    /\ last.res.body = <<"error">>
    /\ last.res.session # Undefined

\* ---------------------------------------------------------------------
\* C11 as claimed: every initialize POST past the Origin check is answered
\* by the transport's own response or, failing that, by the synthesized
\* success envelope that echoes the request id (null when absent).
C11_InitializeTransportOrFallback ==
    (/\ last # NoExchange
     /\ last.req.method = "POST"
     /\ last.req.body = "initialize"
     /\ OriginPasses(last.req.origin))
    => \/ last.res.body = <<"transport">>
       \/ /\ last.res.body = <<"result">>
          /\ last.res.status = 200
          /\ last.res.id = IF last.req.id = "absent" THEN "null" ELSE last.req.id

\* C11 as amended: the handler of an initialize POST past the Origin check
\* ends only by a step that leaves exactly one response to that request:
\* the transport's own response if it wrote one; the synthesized success
\* envelope echoing the request id (null when absent) if handleRequest
\* returned without writing; the 500 error envelope of the catch block if
\* connect or handleRequest threw before anything was written.  Nothing is
\* ever written on top of a response the transport sent.
C11_InitializeAnsweredOnce ==
    [][/\ (/\ Responds
           /\ last'.req.method = "POST"
           /\ last'.req.body = "initialize"
           /\ OriginPasses(last'.req.origin))
          => \/ /\ last'.writer \in {"transport", "catch"}
                /\ last'.res.body = <<"transport">>
             \/ /\ last'.writer = "fallback"
                /\ last'.res.body = <<"result">>
                /\ last'.res.status = 200
                /\ last'.res.id =
                      IF last'.req.id = "absent" THEN "null" ELSE last'.req.id
             \/ /\ last'.writer = "catch"
                /\ last'.res.body = <<"error">>
                /\ last'.res.status = 500
                /\ last'.res.id = "null"
       /\ \A h \in inflight :
             (h.req.method = "POST" /\ h.req.body = "initialize")
             => \/ \E g \in inflight' :
                      g.req = h.req /\ g.currentSessionId = h.currentSessionId
                \/ Responds /\ last'.req = h.req
      ]_vars

\* an initialize without an id got the synthesized envelope with id null
C11_Witness ==
    /\ last.writer = "fallback"
    /\ last.req.body = "initialize"
    /\ last.req.id = "absent"
    /\ last.res.body = <<"result">>
    /\ last.res.id = "null"

\* ---------------------------------------------------------------------
\* C12: an exception raised by a backend adapter while it serves a
\* tools/call (backend not configured, upstream failure status, bad
\* argument) is caught in the dispatch handler and returned as an invocation
\* result; nothing escapes to the transport, and the step changes neither
\* the session map nor the suspended handlers nor any response.
C12_AdapterFailureContained ==
    [][/\ (call.pc = "backend" /\ call'.pc = "done")
          => /\ ~call'.outcome.threw
             /\ Envelope(call'.outcome).field = "result"
             /\ call'.outcome.prefix = "Error: "
                \/ call'.outcome = [threw |-> FALSE, prefix |-> "",
                                    message |-> [text |-> "content", name |-> <<>>]]
       /\ (/\ call = NoCall
           /\ call'.pc = "done"
           /\ ~NoAdapterOwns(call'.name)
           /\ \E b \in Backends \ config : call'.name \in Cases(b))
          => /\ ~call'.outcome.threw
             /\ Envelope(call'.outcome).field = "result"
             /\ call'.outcome.prefix = "Error: "
             /\ call'.outcome.message.text \in
                   {"Google Sheets is not configured", "Calendly is not configured",
                    "SendGrid is not configured"}
       /\ call' # call
          => UNCHANGED <<activeTransports, transports, nextUUID, inflight, last>>
      ]_vars

\* the scheduling service answered 404 to a Calendly tool while a session
\* was registered and its handler suspended: the caller got the text
\* "Error: Calendly API error: 404 ..." as a result
C12_Witness ==
    /\ call.pc = "done"
    /\ call.outcome.prefix = "Error: "
    /\ call.outcome.message.text = "Calendly API error: "
    /\ call.outcome.message.name = <<404>>
    /\ ~call.outcome.threw
    /\ Registered(1)
    /\ inflight # {}

Arrived ==
    IF AnsweredOnArrival THEN {last'.req} ELSE {h.req : h \in Arrivals}

PostBranch(req, accept) ==
    \/ RejectOrigin(req)
    \/ PostInitialize(req, accept)
    \/ PostToolsList(req, accept)
    \/ PostReuse(req, accept)
    \/ PostNewSession(req, accept)

Declared == SheetsTools \o CalendlyTools \o EmailTools

\* the backend that declares a tool
Owner(tool) ==
    IF tool \in Range(SheetsTools) THEN "sheets"
    ELSE IF tool \in Range(CalendlyTools) THEN "calendly"
    ELSE "email"

ConfiguredOwner(tool) == Owner(tool) \in config

\* the listings a client holds in a state: the answer of the shortcut and
\* the answer of the ListTools handler
Listings ==
    (IF last # NoExchange /\ last.writer = "tools/list" THEN {last.res.tools} ELSE {})
    \cup (IF call.pc = "listed" THEN {call.tools} ELSE {})

\* the position of a tool in the declaration order
Rank(tool) == CHOOSE i \in 1..Len(Declared) : Declared[i] = tool

\* C15: building the list never fails, a backend that is not configured
\* contributes no descriptor, and the list is the concatenation of the tool
\* sets of the configured backends, whichever backends are configured.
C15_UnconfiguredContributesNothing ==
    call.pc = "listed"
    => /\ \A b \in Backends \ config :
             \A i \in 1..Len(call.tools) : Owner(call.tools[i]) # b
       /\ call.tools = SelectSeq(Declared, ConfiguredOwner)

\* with only the email backend configured the list is the three email tools
C15_Witness ==
    /\ call.pc = "listed"
    /\ config = {"email"}
    /\ call.tools = EmailTools

\* C16: no step changes the configuration the list is built from; every
\* listing, from the shortcut or from the ListTools handler, is in
\* declaration order (spreadsheet, scheduling, email), holds exactly the
\* tools of the configured backends, and equals every other listing held
\* before or after the step.
C16_ListingDeterministic ==
    [][/\ config' = config
       /\ \A l \in Listings' :
             /\ \A i, j \in 1..Len(l) : i < j => Rank(l[i]) < Rank(l[j])
             /\ Range(l) = {t \in Range(Declared) : Owner(t) \in config'}
       /\ \A l1 \in Listings \cup Listings', l2 \in Listings' : l1 = l2
      ]_vars

\* the shortcut and the handler have both answered, two backends configured
C16_Witness ==
    /\ last # NoExchange
    /\ last.writer = "tools/list"
    /\ call.pc = "listed"
    /\ config = {"sheets", "email"}
    /\ last.res.tools = call.tools
    /\ Len(call.tools) = Len(SheetsTools) + Len(EmailTools)

\* ---------------------------------------------------------------------
\* the last call read the record of the last add, and nothing was written
\* in between
ReadBack ==
    /\ sheets.impl \in Impls
    /\ sheets.last.tool = "get_customer_record"
    /\ sheets.added # NoAdd
    /\ sheets.last.args = sheets.added.id
    /\ sheets.last.result.kind = "record"

\* C17 as stated: the record read back right after an add has the id handed
\* out, createdAt equal to updatedAt, and name, email, phone, issue, status,
\* priority and notes exactly as submitted.
C17_RoundTripExact ==
    ReadBack
    => /\ sheets.last.result.record.id = sheets.added.id
       /\ sheets.last.result.record.createdAt = sheets.last.result.record.updatedAt
       /\ \A f \in Fields : sheets.last.result.record[f] = sheets.added.record[f]

\* C17 amended: as above, except that a phone or notes that was omitted or
\* submitted empty reads back as the empty string or is missing from the
\* record.
C17_RoundTrip ==
    ReadBack
    => /\ sheets.last.result.record.id = sheets.added.id
       /\ sheets.last.result.record.createdAt = sheets.last.result.record.updatedAt
       /\ \A f \in Fields :
             \/ sheets.last.result.record[f] = sheets.added.record[f]
             \/ /\ f \in {"phone", "notes"}
                /\ sheets.added.record[f] \in {Absent, ""}
                /\ sheets.last.result.record[f] \in {Absent, ""}

\* a record added without a phone and with notes has been read back: the
\* notes as submitted, the phone as the empty string
C17_Witness ==
    /\ ReadBack
    /\ sheets.added.record["phone"] = Absent
    /\ sheets.last.result.record.phone = ""
    /\ sheets.added.record["notes"] = "vip"
    /\ sheets.last.result.record.notes = "vip"

AnsweredWithoutKey ==
    /\ rest.pc = "listening"
    /\ rest.last # NoAnswer
    /\ Truthy(rest.API_KEY)
    /\ rest.last.req.header # rest.API_KEY
    /\ rest.last.req.query # rest.API_KEY

AnsweredNoKeyConfigured ==
    /\ rest.pc = "listening"
    /\ rest.last # NoAnswer
    /\ ~Truthy(rest.API_KEY)

C20_ListedToolsAreDispatched ==
    (/\ rest.pc = "listening"
     /\ rest.last # NoAnswer
     /\ rest.last.req.route = "POST /api/servers/:server/tools/:tool"
     /\ rest.last.answeredBy = "route"
     /\ validateTool(rest.servers, rest.last.req.server, rest.last.req.tool))
    => /\ rest.last.result.dispatched
       /\ rest.last.result.error # "Unknown tool: "
       /\ rest.last.status # 404

\* ---------------------------------------------------------------------
\* the handlers whose transport confirms its session in this step (the
\* onsessioninitialized callback runs inside handleRequest)
Confirming ==
    {h \in inflight :
        /\ h.pc = "handle"
        /\ ~h.initialized
        /\ [h EXCEPT !.initialized = TRUE] \in inflight'
        /\ [h EXCEPT !.initialized = TRUE] \notin inflight}

\* C21: during initialize the identifier the transport confirms through
\* onsessioninitialized is the pre-generated one, which is already in the
\* response's Mcp-Session-Id header and already a key of the session map
\* bound to this transport; the callback's insertion changes nothing, and
\* the map holds one entry for the session, bound to the same transport.
C21_ConfirmationIdempotent ==
    [][\A h \in Confirming :
          h.branch = "initialize"
          => /\ transports[h.transport].sid = h.currentSessionId
             /\ h.res.session = h.currentSessionId
             /\ Registered(h.currentSessionId)
             /\ activeTransports[h.currentSessionId] = h.transport
             /\ activeTransports' = activeTransports
             /\ \A t \in DOMAIN transports :
                   transports[t].sid = h.currentSessionId => t = h.transport
      ]_vars

\* an initialize handler whose transport has confirmed its session, the
\* session being the only entry of the map
C21_Witness ==
    \E h \in inflight :
        /\ h.branch = "initialize"
        /\ h.initialized
        /\ DOMAIN activeTransports = {h.currentSessionId}
        /\ activeTransports[h.currentSessionId] = h.transport

\* ---------------------------------------------------------------------
\* C22: a POST /mcp that is neither initialize nor tools/list and presents
\* no session identifier, or one that is not a key of the session map,
\* creates a session: when its transport has answered it, the response's
\* Mcp-Session-Id header carries the identifier generated for it and the
\* identifier is a key of the session map bound to the new transport.
C22_BarePostRegistersSession ==
    [][\A h \in Finishing :
          (/\ h.branch = "new"
           /\ Responds
           /\ last'.writer = "transport")
          => /\ GenericPost(h.req)
             /\ ~SessionKnown(Presented(h.req))
             /\ last'.res.session = h.currentSessionId
             /\ h.currentSessionId \in DOMAIN activeTransports'
             /\ activeTransports'[h.currentSessionId] = h.transport
      ]_vars

\* ---------------------------------------------------------------------
\* C23: once the closure callback has removed a session's entry, no later
\* step puts an entry back under that identifier: no confirmation callback
\* is pending for it, and a GET or POST presenting it is never bound to the
\* identifier nor to the closed transport.
C23_NoResurrection ==
    [][\A t \in DOMAIN transports :
          transports[t].closed
          => /\ transports'[t].closed
             /\ transports[t].sid \notin DOMAIN activeTransports'
             /\ \A sid \in DOMAIN activeTransports' : activeTransports'[sid] # t
             /\ \A h \in Confirming : transports[h.transport].sid # transports[t].sid
             /\ \A h \in Arrivals :
                   /\ h.currentSessionId # transports[t].sid
                   /\ h.transport # t
      ]_vars

\* a POST presenting the identifier of a closed session was given a new
\* transport, whose confirmation callback has run; the old identifier is
\* still not a key of the map
C23_Witness ==
    \E h \in inflight :
        /\ ClosedId(Presented(h.req))
        /\ h.initialized
        /\ Registered(h.currentSessionId)
        /\ ~Registered(Presented(h.req))

\* ---------------------------------------------------------------------
\* the handlers this step touches: suspended, resumed or finished by it
Acting == (inflight \ inflight') \cup (inflight' \ inflight)

\* a tools/call a client of session sid sends
CallOn(sid) ==
    [method |-> "POST", origin |-> NoOrigin, session |-> <<sid>>,
     body |-> "tools/call", id |-> "1"]

RoutingRule(adapter, name) ==
    \/ StartsWith(name, adapter)
    \/ adapter = "sheets" /\ name \in SheetsNames
    \/ adapter = "calendly" /\ name \in CalendlyNames
    \/ adapter = "email" /\ name \in EmailNames

\* C25: a tools/call naming a declared capability is routed to exactly one
\* adapter, the one whose backend declared it, and that adapter's switch has
\* a case for it: the call reaches the backend function when the backend is
\* configured (the name is then in the listed registry) and is answered
\* "<backend> is not configured" otherwise, never "Unknown tool"; the name
\* satisfies the routing rule of no second adapter.
C25_DeclaredRoutedToOwner ==
    [][(call = NoCall /\ call'.pc \in {"backend", "done"} /\ call'.name \in Range(Declared))
       => /\ {b \in Backends : RoutingRule(b, call'.name)} = {Owner(call'.name)}
          /\ call'.name \in Cases(Owner(call'.name))
          /\ IF call'.name \in Range(getAllTools(config))
             THEN /\ call'.pc = "backend"
                  /\ call'.adapter = Owner(call'.name)
             ELSE /\ call'.pc = "done"
                  /\ call'.outcome = CatchToolError(NotConfigured(Owner(call'.name)))
      ]_vars

\* create_event, declared by the scheduling backend, has reached the
\* scheduling adapter's backend function
C25_Witness ==
    /\ call.pc = "backend"
    /\ call.name = <<"create", "event">>
    /\ call.adapter = "calendly"
    /\ call.name \in Range(getAllTools(config))

\* ---------------------------------------------------------------------
\* text ends with suffix
EndsWith(text, suffix) ==
    /\ Len(text) >= Len(suffix)
    /\ SubSeq(text, Len(text) - Len(suffix) + 1, Len(text)) = suffix

\* the text of an allow-listed host
HostText(host) == Dotted([i \in DOMAIN host |-> <<host[i]>>])

\* the header's text parses as a URL whose host name is an allow-listed
\* host or ends with a dot followed by one
ListedHostname(header) ==
    /\ Len(header.value) >= 2
    /\ Head(header.value) = "https://"
    /\ \E host \in allowedHosts :
          \/ Tail(header.value) = HostText(host)
          \/ EndsWith(Tail(header.value), <<".">> \o HostText(host))

\* C26: validateOrigin accepts a request if and only if it has no Origin
\* header, or its Origin parses as a URL whose host name equals an
\* allow-listed host or ends with "." followed by one; an Origin that does
\* not parse, a host name that contains a listed name without the dot
\* boundary (evilopenai.com) or only as a prefix (openai.com.evil.test) is
\* rejected.
C26_OriginAcceptedIffListed ==
    (last # NoExchange /\ "header" \in DOMAIN last.req)
    => (last.writer # "origin"
        <=> (~last.req.header.present \/ ListedHostname(last.req.header)))

\* ---------------------------------------------------------------------
\* C27: entries leave the session map through the closure callback only.
\* A step that removes an identifier is the closure of that session's
\* stream and removes that identifier alone; every step that answers a
\* request (GET, POST, 4xx, 5xx) or resumes a handler keeps every
\* identifier registered, so without a closure the set of registered
\* identifiers never shrinks.
C27_OnlyClosureRemoves ==
    [][/\ \A sid \in DOMAIN activeTransports :
             sid \notin DOMAIN activeTransports'
             => /\ \E t \in DOMAIN transports :
                      /\ transports[t].sid = sid
                      /\ transports[t].sse
                      /\ ~transports[t].closed
                      /\ transports'[t].closed
                /\ DOMAIN activeTransports' = DOMAIN activeTransports \ {sid}
                /\ UNCHANGED <<inflight, last>>
       /\ (Responds \/ inflight' # inflight)
          => DOMAIN activeTransports \subseteq DOMAIN activeTransports'
       /\ (\A t \in DOMAIN transports : transports'[t].closed = transports[t].closed)
          => DOMAIN activeTransports \subseteq DOMAIN activeTransports'
      ]_vars

\* the handling of a request on a registered session threw and was
\* answered 500; the session is still registered
C27_Witness ==
    /\ last.writer = "catch"
    /\ last.res.status = 500
    /\ Registered(Presented(last.req))
    /\ \A t \in DOMAIN transports : ~transports[t].closed

\* ---------------------------------------------------------------------
\* the entries of the session map other than sid's are the same after the
\* step, and so are the transports they are bound to
OthersUntouched(sid) ==
    \A k \in (DOMAIN activeTransports) \ {sid} :
        /\ k \in DOMAIN activeTransports'
        /\ activeTransports'[k] = activeTransports[k]
        /\ transports'[activeTransports[k]] = transports[activeTransports[k]]

\* C28: an initialize POST creates a session of its own under a newly
\* generated identifier whether or not it presents an identifier, registered
\* or not: the identifier differs from the presented one and from every key
\* of the map, the transport is new, the presented session's entry and
\* transport are untouched in every step of the handler, and the response
\* header carries the new identifier.
C28_InitializeAlwaysFresh ==
    [][/\ \A h \in Arrivals :
             (h.req.method = "POST" /\ h.req.body = "initialize")
             => /\ h.branch = "initialize"
                /\ h.currentSessionId # Presented(h.req)
                /\ h.currentSessionId \notin DOMAIN activeTransports
                /\ \A t \in DOMAIN transports : transports[t].sid # h.currentSessionId
                /\ h.transport \notin DOMAIN transports
                /\ transports'[h.transport].sid = h.currentSessionId
                /\ activeTransports' = activeTransports
                /\ OthersUntouched(h.currentSessionId)
       /\ \A h \in Acting :
             h.branch = "initialize"
             => /\ OthersUntouched(h.currentSessionId)
                /\ DOMAIN activeTransports' \subseteq
                      (DOMAIN activeTransports) \cup {h.currentSessionId}
       /\ \A h \in Finishing :
             (h.branch = "initialize" /\ Responds /\ last'.writer \in {"transport", "fallback"})
             => /\ last'.res.session = h.currentSessionId
                /\ last'.res.session # Presented(h.req)
                /\ activeTransports'[h.currentSessionId] = h.transport
      ]_vars

\* an initialize that presented the identifier of a registered session was
\* answered with another identifier; both sessions are registered, each
\* bound to its own transport
C28_Witness ==
    /\ last.writer \in {"transport", "fallback"}
    /\ last.req.body = "initialize"
    /\ Registered(Presented(last.req))
    /\ Registered(last.res.session)
    /\ last.res.session # Presented(last.req)
    /\ activeTransports[last.res.session] # activeTransports[Presented(last.req)]

\* ---------------------------------------------------------------------
\* C29: when the handling of an initialize POST throws (while connecting
\* the transport or inside the transport's request handling) and the
\* request is answered 500, no entry of the session map remains for the
\* identifier generated for it.
C29_FailedInitializeLeavesNoEntry ==
    [][\A h \in Finishing :
          (/\ h.branch = "initialize"
           /\ Responds
           /\ last'.writer = "catch"
           /\ last'.res.status = 500)
          => h.currentSessionId \notin DOMAIN activeTransports'
      ]_vars

\* ---------------------------------------------------------------------
\* C30: whatever the interleaving of two update_customer_record invocations
\* on the same record that set disjoint fields, once both have completed
\* the stored row carries the new values of both.
C30_NoLostUpdate ==
    \A d, e \in sheets.finished :
        (/\ d.caller # e.caller
         /\ d.kind = "updated"
         /\ e.kind = "updated"
         /\ d.id = e.id
         /\ \A f \in Fields : d.update[f] = Absent \/ e.update[f] = Absent)
        => \A f \in Fields :
              d.update[f] # Absent => sheets.rows[1][f] = d.update[f]

====
